---- MODULE Spec2Model ----
(***************************************************************************)
(* Whisprr presence tracking and real-time delivery.                       *)
(*                                                                         *)
(* Server side: lib/socket.js (userSocketMap, getReceiverSocketId, the     *)
(* "connection" and "disconnect" handlers), socket.auth.middleware.js      *)
(* (the handshake gate) and message.controller.js sendMessage.             *)
(* Client side: useAuthStore (checkAuth, signup, login, logout,             *)
(* connectSocket with its getOnlineUsers listener, disconnectSocket) and   *)
(* useChatStore (sendMessage, the newMessage listener, the two user-list   *)
(* fetches) with ChatContainer's subscribe/unsubscribe effect.             *)
(***************************************************************************)
EXTENDS Integers, Sequences, FiniteSets, TLC

\* ---------------------------------------------------------------- bounds
MaxSockets == 2
\* sendMessage requests taken up in the routing specification.
MaxMessages == 1
\* sendMessage calls of the browser's chat store.
MaxSends == 2
\* newMessage events that reach the browser.
MaxIncoming == 1

Sockets == 1..MaxSockets
\* The two sendMessage requests of the end-to-end scenario.
ScenarioMessages == {1, 2}

Messages == (1..MaxMessages) \cup ScenarioMessages
Sends == 1..MaxSends

\* Identities that exist in the users collection, and one that a token can
\* still name although its account was deleted.
Users == {"u1", "u2"}
DeletedUser == "u9"
NoId == "-"

\* `undefined`, as returned by a lookup of an absent key.
Undefined == 0

\* The account the browser of the store model signs in to, and `socket: null`.
ClientUser == "u1"
NoSocket == 0

\* The accounts the browser's user can open a chat with.
Contacts == {"u2", "u3"}

\* What the handshake's Cookie header can carry: no jwt cookie, a token that
\* jwt.verify rejects (forged or expired), or a valid token naming an id.
Credentials ==
    {[kind |-> "none", id |-> NoId], [kind |-> "invalid", id |-> "u1"]}
    \cup {[kind |-> "jwt", id |-> u] : u \in Users \cup {DeletedUser}}

VARIABLES
    userSocketMap,   \* socket.js: {userId: socketId}, in insertion order
    sockState,       \* per socket: "new","auth","admitted","connected","disconnected","refused"
    credValid,       \* per socket: its handshake carried a valid token of an existing user
    decoded,         \* per socket: decoded.id while the middleware awaits findById
    sockUserId,      \* per socket: socket.userId set by the middleware
    transportOpen,   \* per socket: the engine connection is still writable
    connectedAt,     \* per socket: order in which "connection" handlers ran
    nextSock,        \* next unused socket id
    wire,            \* per socket: getOnlineUsers pushes not yet received
    dropped,         \* per socket: a getOnlineUsers write to it was dropped
    onlineUsers,     \* per socket: last payload its client listener stored
    req,             \* per message: the sendMessage request handling it
    nextMsg,         \* next unused message id
    newMessageCount, \* per socket, per message: newMessage pushes handed to it
    authUser,        \* useAuthStore.authUser of the browser's store (NoId = null)
    cookie,          \* the browser holds a valid jwt cookie
    storeSocket,     \* useAuthStore.socket: the Socket object in the store (NoSocket = null)
    clientSock,      \* per socket: state of the Socket object the store created for it
    pending,         \* the store's API calls awaiting their response
    selectedUser,    \* useChatStore.selectedUser, by id (NoId = null)
    messages,        \* useChatStore.messages
    listener,        \* per socket: selectedUser captured by its newMessage listener (NoId = none)
    sends,           \* per sendMessage call of the chat store: its position and its local `messages`
    nextIncoming,    \* number of the next newMessage event to reach the browser
    isUsersLoading,  \* useChatStore.isUsersLoading
    fetching         \* the user-list fetches awaiting their response

vars == <<userSocketMap, sockState, credValid, decoded, sockUserId,
          transportOpen, connectedAt, nextSock, wire, dropped, onlineUsers,
          req, nextMsg, newMessageCount,
          authUser, cookie, storeSocket, clientSock, pending,
          selectedUser, messages, listener, sends, nextIncoming,
          isUsersLoading, fetching>>

sockVars == <<sockState, credValid, decoded, sockUserId, transportOpen,
              connectedAt, nextSock>>
presenceVars == <<wire, dropped, onlineUsers>>
msgVars == <<req, nextMsg, newMessageCount>>
authVars == <<authUser, cookie, storeSocket, clientSock, pending>>
chatVars == <<selectedUser, messages, listener, sends, nextIncoming,
              isUsersLoading, fetching>>
storeVars == <<authVars, chatVars>>
serverVars == <<userSocketMap, sockVars, presenceVars, msgVars>>

\* ------------------------------------------------- the JS object as a map
\* A plain object with string keys: enumeration is in insertion order,
\* assignment to an existing key keeps its position.
RECURSIVE MapIndex(_, _)
MapIndex(map, k) ==
    IF map = <<>> THEN 0
    ELSE IF map[Len(map)].k = k THEN Len(map)
    ELSE MapIndex(SubSeq(map, 1, Len(map) - 1), k)

MapGet(map, k) ==
    IF MapIndex(map, k) = 0 THEN Undefined ELSE map[MapIndex(map, k)].v

MapSet(map, k, v) ==
    IF MapIndex(map, k) = 0
    THEN Append(map, [k |-> k, v |-> v])
    ELSE [map EXCEPT ![MapIndex(map, k)] = [k |-> k, v |-> v]]

MapDelete(map, k) ==
    IF MapIndex(map, k) = 0 THEN map
    ELSE SubSeq(map, 1, MapIndex(map, k) - 1)
         \o SubSeq(map, MapIndex(map, k) + 1, Len(map))

ObjectKeys(map) == [i \in 1..Len(map) |-> map[i].k]

Range(seq) == {seq[i] : i \in 1..Len(seq)}

\* --------------------------------------------------------------- socket.js
getReceiverSocketId(userId) == MapGet(userSocketMap, userId)

\* The registry kept as a list of pairs with push in place of assignment by
\* key: a second registration adds an entry instead of replacing the first.
RegisterSocket_Push(map, userId, s) == Append(map, [k |-> userId, v |-> s])

\* userSocketMap[userId] = socket.id
RegisterSocket(map, userId, s) == MapSet(map, userId, s)

\* A guarded delete with the comparison the wrong way round: the entry is
\* deleted unless it is the disconnecting socket's own.
UnregisterSocket_UnlessOwn(map, userId, s) ==
    IF MapGet(map, userId) = s THEN map ELSE MapDelete(map, userId)

\* A "disconnect" handler that leaves the registry as it is.
UnregisterSocket_Keep(map, userId, s) == map

\* delete userSocketMap[userId]
UnregisterSocket(map, userId, s) == MapDelete(map, userId)

\* socket.broadcast.emit in place of io.emit: everyone but the socket itself.
NamespaceSockets_ExceptSelf(st, s) == {t \in Sockets : st[t] = "connected"} \ {s}

\* The sockets io.emit reaches: those in the namespace.  A socket is added
\* before its "connection" event and removed before its "disconnect" event.
NamespaceSockets(st, s) == {t \in Sockets : st[t] = "connected"}

\* A broadcast loop that a failed write aborts: the sockets after the first
\* closed connection get nothing.
ioEmit_StopAtFailure(targets, payload, w) ==
    [t \in Sockets |->
        IF /\ t \in targets
           /\ \A f \in targets : f <= t => transportOpen[f]
        THEN Append(w[t], payload) ELSE w[t]]

\* io.emit("getOnlineUsers", payload): one write per socket of the namespace;
\* a write to a connection that is no longer open is dropped for that socket
\* alone.
ioEmit(targets, payload, w) ==
    [t \in Sockets |->
        IF t \in targets /\ transportOpen[t] THEN Append(w[t], payload) ELSE w[t]]

\* The sockets of a broadcast whose write was dropped.
DroppedWrites(targets, d) ==
    [t \in Sockets |-> d[t] \/ (t \in targets /\ ~transportOpen[t])]

\* Number of "connection" handlers that have run.
ConnectionsSoFar ==
    Cardinality({t \in Sockets : sockState[t] \in {"connected", "disconnected"}})

\* ------------------------------------------------ socket.auth.middleware.js
\* token = cookie?.split("; ").find(jwt=)?.split("=")[1];  if (!token) reject
TokenPresent(cred) == cred.kind # "none"

\* jwt.decode in place of jwt.verify: the signature and expiry go unchecked.
TokenVerifies_Unchecked(cred) == cred.kind \in {"jwt", "invalid"}

\* jwt.verify(token, JWT_SECRET): throws unless the token is valid
TokenVerifies(cred) == cred.kind = "jwt"

\* The existence check left out: every id passes for an account.
UserFound_Unchecked(id) == TRUE

\* User.findById(decoded.id) / User.exists({_id}): null when the account is gone
UserFound(id) == id \in Users

\* if (!user) return next(new Error("User not found"))
AuthAdmits(dbError, id) == ~dbError /\ UserFound(id)

\* A request not yet received.  senderId and receiverId are the handler's
\* locals; they are gone once it has responded.
IdleRequest ==
    [pc |-> "idle", senderId |-> NoId, receiverId |-> NoId,
     saved |-> FALSE, push |-> "none", status |-> 0]

\* A sendMessage call of the chat store not yet made.  snapshot is the
\* `messages` local the call destructures from get() before its await.
IdleSend == [pc |-> "idle", snapshot |-> <<>>]

Init ==
    /\ userSocketMap = <<>>
    /\ sockState = [s \in Sockets |-> "new"]
    /\ credValid = [s \in Sockets |-> FALSE]
    /\ decoded = [s \in Sockets |-> NoId]
    /\ sockUserId = [s \in Sockets |-> NoId]
    /\ transportOpen = [s \in Sockets |-> TRUE]
    /\ connectedAt = [s \in Sockets |-> 0]
    /\ nextSock = 1
    /\ wire = [s \in Sockets |-> <<>>]
    /\ dropped = [s \in Sockets |-> FALSE]
    /\ onlineUsers = [s \in Sockets |-> <<>>]
    /\ req = [m \in Messages |-> IdleRequest]
    /\ nextMsg = 1
    /\ newMessageCount = [s \in Sockets |-> [m \in Messages |-> 0]]
    /\ authUser = NoId
    /\ cookie = FALSE
    /\ storeSocket = NoSocket
    /\ clientSock = [s \in Sockets |-> "none"]
    /\ pending = {}
    /\ selectedUser = NoId
    /\ messages = <<>>
    /\ listener = [s \in Sockets |-> NoId]
    /\ sends = [k \in Sends |-> IdleSend]
    /\ nextIncoming = 1
    /\ isUsersLoading = FALSE
    /\ fetching = {}

\* socketAuthMiddleware up to its await: a handshake arrives on a fresh
\* socket.  No token, or a token jwt.verify rejects: next(new Error(...)).
SocketAuthStart(s, cred) ==
    /\ s = nextSock
    /\ nextSock <= MaxSockets
    /\ nextSock' = nextSock + 1
    /\ credValid' = [credValid EXCEPT ![s] = cred.kind = "jwt" /\ cred.id \in Users]
    /\ IF TokenPresent(cred) /\ TokenVerifies(cred)
       THEN /\ sockState' = [sockState EXCEPT ![s] = "auth"]
            /\ decoded' = [decoded EXCEPT ![s] = cred.id]
       ELSE /\ sockState' = [sockState EXCEPT ![s] = "refused"]
            /\ UNCHANGED decoded
    /\ UNCHANGED <<userSocketMap, sockUserId, transportOpen, connectedAt>>
    /\ UNCHANGED presenceVars
    /\ UNCHANGED msgVars

\* Handshakes authenticated one at a time, in arrival order: the outcome of a
\* user lookup is taken up only when no earlier handshake is still pending.
SocketAuthFinish_InArrivalOrder(s, dbError) ==
    /\ sockState[s] = "auth"
    /\ \A t \in Sockets : t < s => sockState[t] # "auth"
    /\ IF AuthAdmits(dbError, decoded[s])
       THEN /\ sockUserId' = [sockUserId EXCEPT ![s] = decoded[s]]
            /\ sockState' = [sockState EXCEPT ![s] = "admitted"]
       ELSE /\ sockState' = [sockState EXCEPT ![s] = "refused"]
            /\ UNCHANGED sockUserId
    /\ decoded' = [decoded EXCEPT ![s] = NoId]
    /\ UNCHANGED <<userSocketMap, credValid, transportOpen, connectedAt, nextSock>>
    /\ UNCHANGED presenceVars
    /\ UNCHANGED msgVars

\* socketAuthMiddleware after `await User.findById(decoded.id)`: the query
\* throws (dbError), finds nobody, or finds the user and next() is called.
SocketAuthFinish(s, dbError) ==
    /\ sockState[s] = "auth"
    /\ IF AuthAdmits(dbError, decoded[s])
       THEN /\ sockUserId' = [sockUserId EXCEPT ![s] = decoded[s]]
            /\ sockState' = [sockState EXCEPT ![s] = "admitted"]
       ELSE /\ sockState' = [sockState EXCEPT ![s] = "refused"]
            /\ UNCHANGED sockUserId
    /\ decoded' = [decoded EXCEPT ![s] = NoId]
    /\ UNCHANGED <<userSocketMap, credValid, transportOpen, connectedAt, nextSock>>
    /\ UNCHANGED presenceVars
    /\ UNCHANGED msgVars

\* The key list taken at the top of the "connection" handler and emitted
\* after the registration: the broadcast carries the set before the change.
Connection_SnapshotFirst(s) ==
    /\ sockState[s] = "admitted"
    /\ LET snapshot == ObjectKeys(userSocketMap)
           map == RegisterSocket(userSocketMap, sockUserId[s], s)
           st == [sockState EXCEPT ![s] = "connected"]
       IN /\ userSocketMap' = map
          /\ sockState' = st
          /\ wire' = ioEmit(NamespaceSockets(st, s), snapshot, wire)
          /\ dropped' = DroppedWrites(NamespaceSockets(st, s), dropped)
    /\ connectedAt' = [connectedAt EXCEPT ![s] = ConnectionsSoFar + 1]
    /\ UNCHANGED <<credValid, decoded, sockUserId, transportOpen, nextSock, onlineUsers>>
    /\ UNCHANGED msgVars

\* A store-and-forward "connection" handler: after registering, it emits to
\* the new socket the messages that were stored while nobody was registered.
Connection_FlushStored(s) ==
    /\ sockState[s] = "admitted"
    /\ LET map == RegisterSocket(userSocketMap, sockUserId[s], s)
           st == [sockState EXCEPT ![s] = "connected"]
       IN /\ userSocketMap' = map
          /\ sockState' = st
          /\ wire' = ioEmit(NamespaceSockets(st, s), ObjectKeys(map), wire)
          /\ dropped' = DroppedWrites(NamespaceSockets(st, s), dropped)
    /\ connectedAt' = [connectedAt EXCEPT ![s] = ConnectionsSoFar + 1]
    /\ newMessageCount' =
         [newMessageCount EXCEPT ![s] =
            [m \in Messages |->
               IF req[m].push = "NotConnected" /\ transportOpen[s]
               THEN @[m] + 1 ELSE @[m]]]
    /\ UNCHANGED <<credValid, decoded, sockUserId, transportOpen, nextSock, onlineUsers>>
    /\ UNCHANGED <<req, nextMsg>>

\* io.on("connection", (socket) => ...)
Connection(s) ==
    /\ sockState[s] = "admitted"
    /\ LET map == RegisterSocket(userSocketMap, sockUserId[s], s)
           st == [sockState EXCEPT ![s] = "connected"]
       IN /\ userSocketMap' = map
          /\ sockState' = st
          /\ wire' = ioEmit(NamespaceSockets(st, s), ObjectKeys(map), wire)
          /\ dropped' = DroppedWrites(NamespaceSockets(st, s), dropped)
    /\ connectedAt' = [connectedAt EXCEPT ![s] = ConnectionsSoFar + 1]
    /\ UNCHANGED <<credValid, decoded, sockUserId, transportOpen, nextSock, onlineUsers>>
    /\ UNCHANGED msgVars

\* socket.on("disconnect", () => ...).  The connection's own pending pushes
\* and its client's view end with it.
Disconnect(s) ==
    /\ sockState[s] = "connected"
    /\ LET map == UnregisterSocket(userSocketMap, sockUserId[s], s)
           st == [sockState EXCEPT ![s] = "disconnected"]
       IN /\ userSocketMap' = map
          /\ sockState' = st
          /\ wire' = ioEmit(NamespaceSockets(st, s), ObjectKeys(map),
                            [wire EXCEPT ![s] = <<>>])
          /\ dropped' = DroppedWrites(NamespaceSockets(st, s),
                                      [dropped EXCEPT ![s] = FALSE])
    /\ transportOpen' = [transportOpen EXCEPT ![s] = FALSE]
    /\ onlineUsers' = [onlineUsers EXCEPT ![s] = <<>>]
    /\ connectedAt' = [connectedAt EXCEPT ![s] = 0]
    /\ UNCHANGED <<credValid, decoded, sockUserId, nextSock>>
    /\ UNCHANGED msgVars

\* The transport of a connected socket dies (network loss); the server learns
\* of it only later, when the ping timeout fires "disconnect".  Nothing
\* reaches that client any more: its pending pushes are lost.
TransportLost(s) ==
    /\ sockState[s] = "connected"
    /\ transportOpen[s]
    /\ transportOpen' = [transportOpen EXCEPT ![s] = FALSE]
    /\ wire' = [wire EXCEPT ![s] = <<>>]
    /\ onlineUsers' = [onlineUsers EXCEPT ![s] = <<>>]
    /\ UNCHANGED <<userSocketMap, sockState, credValid, decoded, sockUserId,
                   connectedAt, nextSock, dropped>>
    /\ UNCHANGED msgVars

\* useAuthStore.connectSocket: socket.on("getOnlineUsers", (userIds) => set(...))
OnGetOnlineUsers(s) ==
    /\ sockState[s] = "connected"
    /\ wire[s] # <<>>
    /\ onlineUsers' = [onlineUsers EXCEPT ![s] = Head(wire[s])]
    /\ wire' = [wire EXCEPT ![s] = Tail(wire[s])]
    /\ UNCHANGED <<userSocketMap, dropped>>
    /\ UNCHANGED sockVars
    /\ UNCHANGED msgVars

\* ------------------------------------------------------ message.controller.js
\* The guard `if (receiverSocketId)` lost: io.to(undefined) names no room and
\* the emit goes to the whole namespace.
NewMessageTargets_Unguarded(receiverSocketId) ==
    IF receiverSocketId # Undefined
    THEN {t \in Sockets : t = receiverSocketId /\ sockState[t] = "connected"}
    ELSE {t \in Sockets : sockState[t] = "connected"}

\* io.emit in place of io.to(receiverSocketId).emit: with a receiver socket
\* id at hand the message goes to every socket of the namespace.
NewMessageTargets_Broadcast(receiverSocketId) ==
    IF receiverSocketId # Undefined
    THEN {t \in Sockets : sockState[t] = "connected"}
    ELSE {}

\* if (receiverSocketId) io.to(receiverSocketId)...: the sockets the message
\* is emitted to.  The room named by a socket id holds that socket alone, and
\* only while it is in the namespace.
NewMessageTargets(receiverSocketId) ==
    IF receiverSocketId # Undefined
    THEN {t \in Sockets : t = receiverSocketId /\ sockState[t] = "connected"}
    ELSE {}

\* The emit commented out, as in the controller before real-time delivery.
ioToEmit_CommentedOut(targets, m, cnt) == cnt

\* ....emit("newMessage", newMessage): one write per target; a write to a
\* connection that is no longer open is dropped.
ioToEmit(targets, m, cnt) ==
    [t \in Sockets |->
        IF t \in targets /\ transportOpen[t]
        THEN [cnt[t] EXCEPT ![m] = @ + 1]
        ELSE cnt[t]]

\* sendMessage up to `await User.exists(...)`: the two synchronous checks.
SendMessageStart(m, senderId, receiverId, text, image) ==
    /\ m = nextMsg
    /\ nextMsg \in Messages
    /\ nextMsg' = nextMsg + 1
    /\ req' = [req EXCEPT ![m] =
         IF ~text /\ ~image
         THEN [IdleRequest EXCEPT !.pc = "done", !.status = 400]
         ELSE IF senderId = receiverId
         THEN [IdleRequest EXCEPT !.pc = "done", !.status = 400]
         ELSE [IdleRequest EXCEPT !.pc = "exists", !.senderId = senderId,
                                  !.receiverId = receiverId]]
    /\ UNCHANGED <<userSocketMap, newMessageCount>>
    /\ UNCHANGED sockVars
    /\ UNCHANGED presenceVars

\* sendMessage after `await User.exists({ _id: receiverId })`; with an image
\* in the body the upload is awaited next, otherwise newMessage.save().
SendMessageReceiverChecked(m, dbError, image) ==
    /\ req[m].pc = "exists"
    /\ req' = [req EXCEPT ![m] =
         IF dbError THEN [IdleRequest EXCEPT !.pc = "done", !.status = 500]
         ELSE IF ~UserFound(req[m].receiverId)
         THEN [IdleRequest EXCEPT !.pc = "done", !.status = 404]
         ELSE [@ EXCEPT !.pc = IF image THEN "upload" ELSE "save"]]
    /\ UNCHANGED <<userSocketMap, nextMsg, newMessageCount>>
    /\ UNCHANGED sockVars
    /\ UNCHANGED presenceVars

\* sendMessage after `await cloudinary.uploader.upload(image)`
SendMessageUploaded(m, uploadError) ==
    /\ req[m].pc = "upload"
    /\ req' = [req EXCEPT ![m] =
         IF uploadError THEN [IdleRequest EXCEPT !.pc = "done", !.status = 500]
         ELSE [@ EXCEPT !.pc = "save"]]
    /\ UNCHANGED <<userSocketMap, nextMsg, newMessageCount>>
    /\ UNCHANGED sockVars
    /\ UNCHANGED presenceVars

\* The response sendMessage ends with once the message is saved: 201 after the
\* routing block, or the catch block's 500 when the emit threw.
ResponseAfterRoute(emitThrows) == IF emitThrows THEN 500 ELSE 201

\* A routing block that tidies the registry: after looking the receiver up it
\* drops the entry and tells everyone, as a handler that treats every routed
\* message as the end of the receiver's session would.
SendMessageSaved_Evicts(m, saveError, emitThrows) ==
    /\ req[m].pc = "save"
    /\ LET receiverSocketId == getReceiverSocketId(req[m].receiverId)
           map == IF saveError THEN userSocketMap
                  ELSE MapDelete(userSocketMap, req[m].receiverId)
       IN /\ req' = [req EXCEPT ![m] =
               IF saveError
               THEN [IdleRequest EXCEPT !.pc = "done", !.status = 500]
               ELSE [IdleRequest EXCEPT
                         !.pc = "done", !.saved = TRUE,
                         !.push = IF receiverSocketId = Undefined
                                  THEN "NotConnected" ELSE "Delivered",
                         !.status = 201]]
          /\ newMessageCount' =
               IF saveError THEN newMessageCount
               ELSE ioToEmit(NewMessageTargets(receiverSocketId), m,
                             newMessageCount)
          /\ userSocketMap' = map
          /\ wire' = IF map = userSocketMap THEN wire
                     ELSE ioEmit({t \in Sockets : sockState[t] = "connected"},
                                 ObjectKeys(map), wire)
    /\ UNCHANGED <<nextMsg, dropped, onlineUsers>>
    /\ UNCHANGED sockVars

\* The routing block moved in front of `await newMessage.save()`: the message
\* is emitted whether or not the save then succeeds.
SendMessageSaved_EmitBeforeSave(m, saveError, emitThrows) ==
    /\ req[m].pc = "save"
    /\ LET receiverSocketId == getReceiverSocketId(req[m].receiverId)
           threw == receiverSocketId # Undefined /\ emitThrows
       IN /\ req' = [req EXCEPT ![m] =
               IF saveError \/ threw
               THEN [IdleRequest EXCEPT !.pc = "done", !.status = 500]
               ELSE [IdleRequest EXCEPT
                         !.pc = "done", !.saved = TRUE,
                         !.push = IF receiverSocketId = Undefined
                                  THEN "NotConnected" ELSE "Delivered",
                         !.status = 201]]
          /\ newMessageCount' =
               IF threw THEN newMessageCount
               ELSE ioToEmit(NewMessageTargets(receiverSocketId), m,
                             newMessageCount)
    /\ UNCHANGED <<userSocketMap, nextMsg>>
    /\ UNCHANGED sockVars
    /\ UNCHANGED presenceVars

\* sendMessage after `await newMessage.save()`: the save throws (catch: 500),
\* or the message is stored, the receiver's socket id is looked up, the
\* message is emitted to it when there is one, and the response is sent.
\* emitThrows: the emit call itself throws instead of returning.
SendMessageSaved(m, saveError, emitThrows) ==
    /\ req[m].pc = "save"
    /\ IF saveError
       THEN /\ req' = [req EXCEPT ![m] =
                    [IdleRequest EXCEPT !.pc = "done", !.status = 500]]
            /\ UNCHANGED newMessageCount
       ELSE LET receiverSocketId == getReceiverSocketId(req[m].receiverId)
                threw == receiverSocketId # Undefined /\ emitThrows
            IN /\ req' = [req EXCEPT ![m] =
                    [IdleRequest EXCEPT
                              !.pc = "done", !.saved = TRUE,
                              !.push = IF receiverSocketId = Undefined
                                       THEN "NotConnected"
                                       ELSE IF threw THEN "Threw" ELSE "Delivered",
                              !.status = ResponseAfterRoute(threw)]]
               /\ newMessageCount' =
                    IF threw THEN newMessageCount
                    ELSE ioToEmit(NewMessageTargets(receiverSocketId), m,
                                  newMessageCount)
    /\ UNCHANGED <<userSocketMap, nextMsg>>
    /\ UNCHANGED sockVars
    /\ UNCHANGED presenceVars

\* ------------------------------------------------------------ useAuthStore
\* One browser and its store.  An API call is pending from the call to the
\* arrival of its response; the server's handling of the request (the jwt
\* cookie it sets or clears) takes effect with the response.  Every Socket
\* object the store creates is one handshake at the server.

\* if (!authUser || get().socket?.connected) return;  -- FALSE when it returns
ConnectGuardPasses(user) ==
    /\ user # NoId
    /\ ~(storeSocket # NoSocket /\ clientSock[storeSocket] = "connected")

\* The Cookie header of a handshake sent while the browser's cookie is ck.
HandshakeCookie(ck) ==
    IF ck THEN [kind |-> "jwt", id |-> ClientUser] ELSE [kind |-> "none", id |-> NoId]

\* connectSocket, with get().authUser = user: past the guard it creates a
\* Socket, whose handshake reaches the server's middleware, and stores it.
connectSocket(user, ck) ==
    IF ConnectGuardPasses(user)
    THEN /\ SocketAuthStart(nextSock, HandshakeCookie(ck))
         /\ clientSock' = [clientSock EXCEPT ![nextSock] = "connecting"]
         /\ storeSocket' = nextSock
    ELSE /\ UNCHANGED <<storeSocket, clientSock>>
         /\ UNCHANGED serverVars

\* if (get().socket?.connected) get().socket.disconnect();
disconnectSocket ==
    IF storeSocket # NoSocket /\ clientSock[storeSocket] = "connected"
    THEN clientSock' = [clientSock EXCEPT ![storeSocket] = "closed"]
    ELSE UNCHANGED clientSock

\* An API call is made: checkAuth, signup, login or logout up to its await.
ApiCall(call) ==
    /\ call \notin pending
    /\ pending' = pending \cup {call}
    /\ UNCHANGED <<authUser, cookie, storeSocket, clientSock>>
    /\ UNCHANGED serverVars

\* checkAuth after `await axiosInstance.get("/auth/check")`: the user, when
\* the request carried a valid cookie and did not fail; otherwise the catch.
CheckAuthReturn(failed) ==
    /\ "checkAuth" \in pending
    /\ pending' = pending \ {"checkAuth"}
    /\ UNCHANGED cookie
    /\ IF cookie /\ ~failed
       THEN /\ authUser' = ClientUser
            /\ connectSocket(ClientUser, cookie)
       ELSE /\ authUser' = NoId
            /\ UNCHANGED <<storeSocket, clientSock>>
            /\ UNCHANGED serverVars

\* signup / login after their await: the server set the jwt cookie and sent
\* the user, or answered with an error (catch: a toast, nothing else).
SignInReturn(call, ok) ==
    /\ call \in {"signup", "login"}
    /\ call \in pending
    /\ pending' = pending \ {call}
    /\ IF ok
       THEN /\ cookie' = TRUE
            /\ authUser' = ClientUser
            /\ connectSocket(ClientUser, TRUE)
       ELSE /\ UNCHANGED <<authUser, cookie, storeSocket, clientSock>>
            /\ UNCHANGED serverVars

\* logout after `await axiosInstance.post("/auth/logout")`: the server
\* cleared the cookie; authUser is set to null and disconnectSocket called.
LogoutReturn(ok) ==
    /\ "logout" \in pending
    /\ pending' = pending \ {"logout"}
    /\ IF ok
       THEN /\ cookie' = FALSE
            /\ authUser' = NoId
            /\ disconnectSocket
       ELSE UNCHANGED <<authUser, cookie, clientSock>>
    /\ UNCHANGED storeSocket
    /\ UNCHANGED serverVars

\* connectSocket called on its own.
ConnectSocketCall ==
    /\ connectSocket(authUser, cookie)
    /\ UNCHANGED <<authUser, cookie, pending>>

\* The Socket object of s gets the server's CONNECT packet: connected = true.
ClientOnConnect(s) ==
    /\ clientSock[s] = "connecting"
    /\ sockState[s] = "connected"
    /\ clientSock' = [clientSock EXCEPT ![s] = "connected"]
    /\ UNCHANGED <<authUser, cookie, storeSocket, pending>>
    /\ UNCHANGED serverVars

\* The Socket object of s gets the middleware's error: it stays unconnected.
ClientOnConnectError(s) ==
    /\ clientSock[s] = "connecting"
    /\ sockState[s] = "refused"
    /\ clientSock' = [clientSock EXCEPT ![s] = "closed"]
    /\ UNCHANGED <<authUser, cookie, storeSocket, pending>>
    /\ UNCHANGED serverVars

HandshakeStep ==
    \/ \E s \in Sockets, cred \in Credentials : SocketAuthStart(s, cred)
    \/ \E s \in Sockets, dbError \in BOOLEAN : SocketAuthFinish(s, dbError)

RegistryStep ==
    \/ \E s \in Sockets : Connection(s)
    \/ \E s \in Sockets : Disconnect(s)

TransportStep == \E s \in Sockets : TransportLost(s)

ClientStep == \E s \in Sockets : OnGetOnlineUsers(s)

RequestStep ==
    \/ \E m \in Messages, senderId \in Users, receiverId \in Users \cup {DeletedUser},
          text \in BOOLEAN, image \in BOOLEAN :
            SendMessageStart(m, senderId, receiverId, text, image)
    \/ \E m \in Messages, dbError \in BOOLEAN, image \in BOOLEAN :
            SendMessageReceiverChecked(m, dbError, image)
    \/ \E m \in Messages, uploadError \in BOOLEAN : SendMessageUploaded(m, uploadError)
    \/ \E m \in Messages, saveError \in BOOLEAN, emitThrows \in BOOLEAN :
            SendMessageSaved(m, saveError, emitThrows)

\* ------------------------------------------------------------ useChatStore
\* The chat store of the same browser.  An entry of `messages` is the
\* optimistic message of a send (temp id, isOptimistic), the record the
\* server answered a send with, or a message a newMessage event carried.
\* The lists allContacts and chats and the history fetch getMessagesByUserId
\* (isMessagesLoading) are left out.
OptimisticMessage(k) == [kind |-> "optimistic", id |-> k, senderId |-> ClientUser]

ServerMessage(k) == [kind |-> "server", id |-> k, senderId |-> ClientUser]

IncomingMessage(j, from) == [kind |-> "incoming", id |-> j, senderId |-> from]

\* unsubscribeFromMessages: if (socket) socket.off("newMessage"), on the
\* socket the auth store holds now.
unsubscribeFromMessages(l) ==
    IF storeSocket # NoSocket THEN [l EXCEPT ![storeSocket] = NoId] ELSE l

\* subscribeToMessages with get().selectedUser = u: returns when no chat is
\* open or the auth store has no socket; otherwise socket.on("newMessage",
\* ...) with u captured by the listener.
subscribeToMessages(l, u) ==
    IF u = NoId \/ storeSocket = NoSocket THEN l ELSE [l EXCEPT ![storeSocket] = u]

\* A click that opens the chat with u, switches to it or closes the chat
\* (u = NoId): setSelectedUser, and with the re-render that follows the
\* click ChatContainer's effect: the cleanup of the chat that was open
\* (unsubscribeFromMessages), then subscribeToMessages for the new one.
SelectUser(u) ==
    /\ authUser # NoId
    /\ u # selectedUser
    /\ selectedUser' = u
    /\ listener' =
         subscribeToMessages(
            IF selectedUser # NoId THEN unsubscribeFromMessages(listener) ELSE listener,
            u)
    /\ UNCHANGED <<messages, sends, nextIncoming, isUsersLoading, fetching>>
    /\ UNCHANGED authVars
    /\ UNCHANGED serverVars

\* The newMessage listener: set({ messages: [...get().messages, newMessage] })
\* when the sender is the selectedUser it captured (heard), else return.
AppendIncoming(list, heard, newMessage) ==
    IF heard # NoId /\ newMessage.senderId = heard
    THEN Append(list, newMessage)
    ELSE list

\* A newMessage event from `from` arrives on socket s, the socket the server
\* has registered for the browser's user.
OnNewMessage(s, from) ==
    /\ clientSock[s] = "connected"
    /\ sockState[s] = "connected"
    /\ getReceiverSocketId(ClientUser) = s
    /\ nextIncoming <= MaxIncoming
    /\ nextIncoming' = nextIncoming + 1
    /\ messages' = AppendIncoming(messages, listener[s], IncomingMessage(nextIncoming, from))
    /\ UNCHANGED <<selectedUser, listener, sends, isUsersLoading, fetching>>
    /\ UNCHANGED authVars
    /\ UNCHANGED serverVars

\* useChatStore.sendMessage up to its await: `messages` is read into the
\* call's local and the optimistic message appended to it.
ChatSendMessageCall(k) ==
    /\ authUser # NoId
    /\ selectedUser # NoId
    /\ sends[k].pc = "idle"
    /\ \A j \in Sends : j < k => sends[j].pc # "idle"
    /\ sends' = [sends EXCEPT ![k] = [pc |-> "inflight", snapshot |-> messages]]
    /\ messages' = Append(messages, OptimisticMessage(k))
    /\ UNCHANGED <<selectedUser, listener, nextIncoming, isUsersLoading, fetching>>
    /\ UNCHANGED authVars
    /\ UNCHANGED serverVars

\* A catch block that leaves the list as it is.
RolledBack_Not(list, snapshot) == list

\* catch: set({ messages: messages })
RolledBack(list, snapshot) == snapshot

\* try, after the await: set({ messages: messages.concat(res.data) })
Confirmed(list, snapshot, k) == Append(snapshot, ServerMessage(k))

\* useChatStore.sendMessage after `await axiosInstance.post(...)`.
ChatSendMessageReturn(k, ok) ==
    /\ sends[k].pc = "inflight"
    /\ messages' = IF ok THEN Confirmed(messages, sends[k].snapshot, k)
                   ELSE RolledBack(messages, sends[k].snapshot)
    /\ sends' = [sends EXCEPT ![k] =
                    [pc |-> IF ok THEN "succeeded" ELSE "failed", snapshot |-> <<>>]]
    /\ UNCHANGED <<selectedUser, listener, nextIncoming, isUsersLoading, fetching>>
    /\ UNCHANGED authVars
    /\ UNCHANGED serverVars

\* getAllContacts ("contacts") / getMyChatPartners ("chats") up to the await.
FetchUsersCall(which) ==
    /\ authUser # NoId
    /\ which \notin fetching
    /\ fetching' = fetching \cup {which}
    /\ isUsersLoading' = TRUE
    /\ UNCHANGED <<selectedUser, messages, listener, sends, nextIncoming>>
    /\ UNCHANGED authVars
    /\ UNCHANGED serverVars

\* getAllContacts / getMyChatPartners after the await: the list is stored or
\* the error toasted, and finally: set({ isUsersLoading: false }).
FetchUsersReturn(which, ok) ==
    /\ which \in fetching
    /\ fetching' = fetching \ {which}
    /\ isUsersLoading' = FALSE
    /\ UNCHANGED <<selectedUser, messages, listener, sends, nextIncoming>>
    /\ UNCHANGED authVars
    /\ UNCHANGED serverVars

ChatStep ==
    \/ \E u \in Contacts \cup {NoId} : SelectUser(u)
    \/ \E s \in Sockets, from \in Contacts : OnNewMessage(s, from)
    \/ \E k \in Sends : ChatSendMessageCall(k)
    \/ \E k \in Sends, ok \in BOOLEAN : ChatSendMessageReturn(k, ok)
    \/ \E which \in {"contacts", "chats"} : FetchUsersCall(which)
    \/ \E which \in {"contacts", "chats"}, ok \in BOOLEAN : FetchUsersReturn(which, ok)

StoreStep ==
    \/ \E call \in {"checkAuth", "signup", "login", "logout"} : ApiCall(call)
    \/ \E failed \in BOOLEAN : CheckAuthReturn(failed)
    \/ \E call \in {"signup", "login"}, ok \in BOOLEAN : SignInReturn(call, ok)
    \/ \E ok \in BOOLEAN : LogoutReturn(ok)
    \/ ConnectSocketCall
    \/ \E s \in Sockets : ClientOnConnect(s)
    \/ \E s \in Sockets : ClientOnConnectError(s)

\* The whole system: the server with clients of its own, and the store.
Next ==
    \/ /\ HandshakeStep \/ RegistryStep \/ TransportStep \/ ClientStep \/ RequestStep
       /\ UNCHANGED storeVars
    \/ StoreStep /\ UNCHANGED chatVars
    \/ ChatStep

Spec == Init /\ [][Next]_vars

\* Presence: the socket server and its clients, with no sendMessage request
\* (a request changes none of the variables presence is about).
NextPresence ==
    /\ HandshakeStep \/ RegistryStep \/ TransportStep \/ ClientStep
    /\ UNCHANGED storeVars

SpecPresence == Init /\ [][NextPresence]_vars

\* Routing: the socket server and the sendMessage requests; the clients'
\* getOnlineUsers listener, which the server never reads, is left out.
NextRouting ==
    /\ \/ HandshakeStep
       \/ RegistryStep
       \/ TransportStep
       \/ RequestStep /\ nextMsg' <= MaxMessages + 1
    /\ UNCHANGED storeVars

SpecRouting == Init /\ [][NextRouting]_vars

\* The end-to-end scenario: u1 connects on socket 1, then u2 on socket 2; u1
\* sends u2 a first message while both are connected; u2 disconnects; u1
\* sends u2 a second message.  The scenario fixes who connects and sends and
\* the order of the two registrations, the two routings and the disconnect;
\* the handshakes' and requests' earlier steps and the clients' receipt of
\* their pushes interleave freely.
ScenarioHandshake ==
    \/ SocketAuthStart(1, [kind |-> "jwt", id |-> "u1"])
    \/ SocketAuthStart(2, [kind |-> "jwt", id |-> "u2"])
    \/ \E s \in {1, 2} : SocketAuthFinish(s, FALSE)

ScenarioRegistry ==
    \/ Connection(1)
    \/ sockState[1] = "connected" /\ Connection(2)
    \/ req[1].pc = "done" /\ Disconnect(2)

ScenarioRequest ==
    \/ \E m \in ScenarioMessages, image \in BOOLEAN : SendMessageStart(m, "u1", "u2", TRUE, image)
    \/ \E m \in ScenarioMessages, image \in BOOLEAN : SendMessageReceiverChecked(m, FALSE, image)
    \/ \E m \in ScenarioMessages : SendMessageUploaded(m, FALSE)
    \/ sockState[2] = "connected" /\ SendMessageSaved(1, FALSE, FALSE)
    \/ sockState[2] = "disconnected" /\ SendMessageSaved(2, FALSE, FALSE)

NextScenario ==
    /\ ScenarioHandshake \/ ScenarioRegistry \/ ClientStep \/ ScenarioRequest
    /\ UNCHANGED storeVars

\* The store of one browser and the socket server: every socket is one the
\* store opened, the network stays up, and a socket's "disconnect" fires at
\* the server once the store has closed it.
NextStore ==
    \/ StoreStep /\ UNCHANGED chatVars
    \/ /\ \/ \E s \in Sockets, dbError \in BOOLEAN : SocketAuthFinish(s, dbError)
          \/ \E s \in Sockets : Connection(s)
          \/ \E s \in Sockets : clientSock[s] = "closed" /\ Disconnect(s)
          \/ ClientStep
       /\ UNCHANGED storeVars

SpecStore == Init /\ [][NextStore]_vars

\* The chat store in a session that is under way: the user signed in, the
\* socket the auth store opened is connected and registered, and the first
\* getOnlineUsers was received.  The session and the socket stay as they are.
InitChat ==
    /\ userSocketMap = <<[k |-> ClientUser, v |-> 1]>>
    /\ sockState = [s \in Sockets |-> IF s = 1 THEN "connected" ELSE "new"]
    /\ credValid = [s \in Sockets |-> s = 1]
    /\ decoded = [s \in Sockets |-> NoId]
    /\ sockUserId = [s \in Sockets |-> IF s = 1 THEN ClientUser ELSE NoId]
    /\ transportOpen = [s \in Sockets |-> TRUE]
    /\ connectedAt = [s \in Sockets |-> IF s = 1 THEN 1 ELSE 0]
    /\ nextSock = 2
    /\ wire = [s \in Sockets |-> <<>>]
    /\ dropped = [s \in Sockets |-> FALSE]
    /\ onlineUsers = [s \in Sockets |-> IF s = 1 THEN <<ClientUser>> ELSE <<>>]
    /\ req = [m \in Messages |-> IdleRequest]
    /\ nextMsg = 1
    /\ newMessageCount = [s \in Sockets |-> [m \in Messages |-> 0]]
    /\ authUser = ClientUser
    /\ cookie = TRUE
    /\ storeSocket = 1
    /\ clientSock = [s \in Sockets |-> IF s = 1 THEN "connected" ELSE "none"]
    /\ pending = {}
    /\ selectedUser = NoId
    /\ messages = <<>>
    /\ listener = [s \in Sockets |-> NoId]
    /\ sends = [k \in Sends |-> IdleSend]
    /\ nextIncoming = 1
    /\ isUsersLoading = FALSE
    /\ fetching = {}

SpecChat == InitChat /\ [][ChatStep]_vars

\* A session from sign-in on, without logout: the auth store signs in and
\* opens its sockets, the server admits and registers them, and the user
\* opens, switches and closes chats while newMessage events arrive.
NextSession ==
    \/ /\ \/ \E call \in {"signup", "login"} : ApiCall(call)
          \/ \E call \in {"signup", "login"}, ok \in BOOLEAN : SignInReturn(call, ok)
          \/ ConnectSocketCall
          \/ \E s \in Sockets : ClientOnConnect(s)
          \/ \E s \in Sockets : ClientOnConnectError(s)
       /\ UNCHANGED chatVars
    \/ /\ \/ \E s \in Sockets, dbError \in BOOLEAN : SocketAuthFinish(s, dbError)
          \/ \E s \in Sockets : Connection(s)
       /\ UNCHANGED storeVars
    \/ \E u \in Contacts \cup {NoId} : SelectUser(u)
    \/ \E s \in Sockets, from \in Contacts : OnNewMessage(s, from)

SpecSession == Init /\ [][NextSession]_vars

SpecScenario == Init /\ [][NextScenario]_vars

\* ------------------------------------------------------------ vocabulary
\* A connection is live from its "connection" event to its "disconnect" event.
Live(s) == sockState[s] = "connected"

LiveSockets == {s \in Sockets : Live(s)}

LiveIdentities == {sockUserId[s] : s \in LiveSockets}

LiveSocketsOf(u) == {s \in LiveSockets : sockUserId[s] = u}

\* The live connection of u whose "connection" handler ran last.
LatestLive(u) ==
    CHOOSE s \in LiveSocketsOf(u) :
        \A t \in LiveSocketsOf(u) : connectedAt[t] <= connectedAt[s]

\* No handshake is under way, no push is in flight and no dead transport is
\* still waiting for its "disconnect" event.
Settled ==
    /\ \A s \in Sockets : sockState[s] \notin {"auth", "admitted"}
    /\ \A s \in Sockets : wire[s] = <<>>
    /\ \A s \in LiveSockets : transportOpen[s]

\* C1: when a socket's disconnect fires while the registry holds another
\* handle for its identity, the lookup of that identity is unchanged.
C1_StaleDisconnectImmunity ==
    [][\A s \in Sockets :
         (/\ sockState[s] = "connected"
          /\ sockState'[s] = "disconnected"
          /\ getReceiverSocketId(sockUserId[s]) # s)
         => MapGet(userSocketMap', sockUserId[s]) = getReceiverSocketId(sockUserId[s])]_vars

\* C2: whenever an identity has a live connection, the lookup returns its most
\* recently registered live connection.
C2_LookupIsLatestLive ==
    \A u \in Users :
        LiveSocketsOf(u) # {} => getReceiverSocketId(u) = LatestLive(u)

\* C3: the registry's key set is the set of identities with a live connection,
\* and the lookup is undefined exactly for the others.
C3_KeysAreLiveIdentities ==
    /\ Range(ObjectKeys(userSocketMap)) = LiveIdentities
    /\ \A u \in Users : (getReceiverSocketId(u) = Undefined) <=> (u \notin LiveIdentities)

\* C4: once settled, the last getOnlineUsers payload every live connection
\* received is exactly the set of identities with a live connection.
C4_PresenceConvergence ==
    Settled => \A s \in LiveSockets : Range(onlineUsers[s]) = LiveIdentities

\* ---------------------------------------------------- registry, as observed
HasEntry(u) == \E i \in DOMAIN userSocketMap : userSocketMap[i].k = u

EntryOf(u) ==
    IF HasEntry(u)
    THEN userSocketMap[CHOOSE i \in DOMAIN userSocketMap : userSocketMap[i].k = u].v
    ELSE Undefined

KeySeq(map) == [i \in DOMAIN map |-> map[i].k]

\* The routing block of request m runs in this step: the save succeeded.
Routed(m) == req[m].pc = "save" /\ req'[m].pc = "done" /\ req'[m].saved

C6_NotConnectedWhenOffline ==
    [][\A m \in Messages :
         (Routed(m) /\ ~HasEntry(req[m].receiverId))
         => /\ req'[m].push = "NotConnected"
            /\ newMessageCount' = newMessageCount]_vars

C6_Witness ==
    \E m \in Messages :
        /\ req[m].push = "NotConnected"
        /\ \E s \in Sockets : Live(s) /\ transportOpen[s]
        /\ \E s \in Sockets : sockState[s] = "disconnected"

\* C7: a socket whose handshake did not carry a valid token of an existing
\* user gets no further than the pending check, is never a value of the registry and never receives a
\* broadcast; every registry key is the identity of a validly authenticated
\* socket, every broadcast identity an existing user; and the steps of the
\* handshake gate leave the registry and the pushes unchanged.
C7_RefusedNeverRegistered ==
    /\ [](\A s \in Sockets :
            ~credValid[s] =>
                /\ sockState[s] \in {"new", "auth", "refused"}
                /\ \A i \in DOMAIN userSocketMap : userSocketMap[i].v # s
                /\ wire[s] = <<>> /\ onlineUsers[s] = <<>>)
    /\ [](\A i \in DOMAIN userSocketMap :
            /\ credValid[userSocketMap[i].v]
            /\ sockUserId[userSocketMap[i].v] = userSocketMap[i].k)
    /\ [](\A s \in Sockets :
            /\ Range(onlineUsers[s]) \subseteq Users
            /\ \A j \in DOMAIN wire[s] : Range(wire[s][j]) \subseteq Users)
    /\ [][(\E s \in Sockets :
             sockState[s] \in {"new", "auth"} /\ sockState'[s] # sockState[s])
          => UNCHANGED <<userSocketMap, wire, onlineUsers>>]_vars

C7_Witness ==
    \E s \in Sockets :
        /\ sockState[s] = "refused"
        /\ ~credValid[s]
        /\ userSocketMap # <<>>

\* C8: a request whose message has been saved is answered 201, whatever
\* happens to the live push.
C8_PushFailureKeepsSuccess ==
    \A m \in Messages :
        (req[m].pc = "done" /\ req[m].saved) => req[m].status = 201

\* A "connection" or "disconnect" handler runs for socket s in this step.
ConnectStep(s) == sockState[s] = "admitted" /\ sockState'[s] = "connected"

DisconnectStep(s) == sockState[s] = "connected" /\ sockState'[s] = "disconnected"

C10_BroadcastOnEveryChange ==
    [][\A s \in Sockets :
         /\ ConnectStep(s) =>
              /\ transportOpen[s] => wire'[s] = <<KeySeq(userSocketMap')>>
              /\ \A t \in Sockets \ {s} :
                    (sockState[t] = "connected" /\ transportOpen[t])
                    => wire'[t] = Append(wire[t], KeySeq(userSocketMap'))
         /\ DisconnectStep(s) =>
              /\ wire'[s] = <<>>
              /\ \A t \in Sockets \ {s} :
                    (sockState[t] = "connected" /\ transportOpen[t])
                    => wire'[t] = Append(wire[t], KeySeq(userSocketMap'))]_vars

C10_Witness ==
    \E s, t \in Sockets :
        /\ sockState[s] = "disconnected"
        /\ Live(t)
        /\ wire[t] # <<>>
        /\ wire[t][Len(wire[t])] = KeySeq(userSocketMap)

\* C11: a newMessage push of a message exists only if that message's record
\* was saved before: every pushed message is in stored history, a request
\* whose save failed has pushed nothing, and a request that has not yet
\* passed its save has pushed nothing either.
C11_PushOnlyAfterPersist ==
    \A m \in Messages :
        /\ (\E s \in Sockets : newMessageCount[s][m] > 0)
              => (req[m].pc = "done" /\ req[m].saved)
        /\ ~req[m].saved => \A s \in Sockets : newMessageCount[s][m] = 0

C11_Witness ==
    \E m \in Messages, s \in Sockets :
        /\ newMessageCount[s][m] > 0
        /\ req[m].saved
        /\ req[m].status = 201

\* C12: a message is pushed to at most one connection, in the step that routes
\* it, and that connection is the handle the registry holds for the message's
\* recipient at that moment: a socket of the recipient's identity, never one
\* of another identity, the sender's included.
C12_OnlyRecipientHandle ==
    /\ [](\A m \in Messages :
            Cardinality({s \in Sockets : newMessageCount[s][m] > 0}) <= 1)
    /\ [][\A m \in Messages, t \in Sockets :
            newMessageCount'[t][m] # newMessageCount[t][m]
            => /\ Routed(m)
               /\ t = EntryOf(req[m].receiverId)
               /\ sockUserId[t] = req[m].receiverId
               /\ sockUserId[t] # req[m].senderId]_vars

\* The sender and another socket are connected and the recipient got the push.
C12_Witness ==
    \E m \in Messages, s, t \in Sockets :
        /\ s # t
        /\ Live(s) /\ Live(t)
        /\ sockUserId[s] # sockUserId[t]
        /\ newMessageCount[s][m] = 1
        /\ newMessageCount[t][m] = 0

\* C13: a message routed while its recipient had no registry entry is never
\* pushed, whatever connects afterwards: in every later state no connection
\* has received a newMessage for it.
C13_NoStoreAndForward ==
    \A m \in Messages :
        req[m].push = "NotConnected"
        => \A s \in Sockets : newMessageCount[s][m] = 0

\* After the message was routed to nobody, every user has connected.
C13_Witness ==
    \E m \in Messages :
        /\ req[m].push = "NotConnected"
        /\ \A u \in Users : HasEntry(u) /\ Live(EntryOf(u)) /\ transportOpen[EntryOf(u)]

\* C14: when a socket h2 registers for an identity that already has h1
\* registered, the lookup of that identity becomes h2; a lookup only ever
\* changes to a socket in that socket's own "connection" step, and a socket
\* has one such step at most, so the replaced h1 is never returned again; the
\* handle returned is live and the latest registered of its identity; and an
\* identity appears at most once in the registry and in every getOnlineUsers
\* payload pushed or received.
C14_ReplaceOnReconnect ==
    /\ [][\A s \in Sockets :
            ConnectStep(s) => EntryOf(sockUserId[s])' = s]_vars
    /\ [][\A u \in Users :
            (EntryOf(u)' # EntryOf(u) /\ EntryOf(u)' # Undefined)
            => ConnectStep(EntryOf(u)')]_vars
    /\ [][\A s \in Sockets :
            sockState[s] \in {"connected", "disconnected"}
            => sockState'[s] \in {"connected", "disconnected"}]_vars
    /\ [](\A u \in Users :
            HasEntry(u)
            => /\ Live(EntryOf(u))
               /\ sockUserId[EntryOf(u)] = u
               /\ \A t \in LiveSocketsOf(u) :
                     connectedAt[t] <= connectedAt[EntryOf(u)])
    /\ [](\A i, j \in DOMAIN userSocketMap :
            userSocketMap[i].k = userSocketMap[j].k => i = j)
    /\ [](\A s \in Sockets :
            /\ Cardinality(Range(onlineUsers[s])) = Len(onlineUsers[s])
            /\ \A n \in DOMAIN wire[s] :
                  Cardinality(Range(wire[s][n])) = Len(wire[s][n]))

\* h1 and h2 of one identity are both live, h2 registered after h1 and is the
\* handle of the identity, and the broadcast of h2's registration is pending.
C14_Witness ==
    \E h1, h2 \in Sockets, u \in Users :
        /\ h1 # h2
        /\ Live(h1) /\ Live(h2)
        /\ sockUserId[h1] = u /\ sockUserId[h2] = u
        /\ connectedAt[h1] < connectedAt[h2]
        /\ EntryOf(u) = h2
        /\ wire[h1] # <<>>
        /\ wire[h1][Len(wire[h1])] = <<u>>

\* C15: while the user lookup of handshake a is pending, any other handshake b
\* can go on: b's own lookup, once pending, can complete, and b, once
\* admitted, can be registered; neither step waits for a's outcome.
C15_AdmissionDoesNotWait ==
    \A a, b \in Sockets :
        (a # b /\ sockState[a] = "auth")
        => /\ sockState[b] = "auth" => ENABLED SocketAuthFinish(b, FALSE)
           /\ sockState[b] = "admitted" => ENABLED Connection(b)

\* b arrived after a and is registered while a's lookup is still pending.
C15_Witness ==
    \E a, b \in Sockets :
        /\ a < b
        /\ sockState[a] = "auth"
        /\ sockState[b] = "connected"
        /\ HasEntry(sockUserId[b])

\* C16: whenever a getOnlineUsers push is added to the pushes on their way to
\* a connection, it is a single push and it carries the registry's keys as
\* they are once the step's registry change is made; earlier pushes still on
\* their way are left as they were.
C16_PushCarriesCurrentSet ==
    [][\A t \in Sockets :
         Len(wire'[t]) > Len(wire[t])
         => wire'[t] = Append(wire[t], KeySeq(userSocketMap'))]_vars

\* Two pushes are on their way to one connection: the older carries the set
\* of its own moment, the newer the registry's set as it is now.
C16_Witness ==
    \E t \in Sockets :
        /\ Live(t)
        /\ Len(wire[t]) >= 2
        /\ wire[t][Len(wire[t])] = KeySeq(userSocketMap)
        /\ wire[t][1] # KeySeq(userSocketMap)

\* C17: no step of a sendMessage request, the lookup and the routing with the
\* recipient registered or not included, changes the registry or pushes a
\* getOnlineUsers to any connection.
C17_SendLeavesRegistry ==
    [][(\E m \in Messages : req'[m] # req[m])
       => /\ userSocketMap' = userSocketMap
          /\ wire' = wire
          /\ onlineUsers' = onlineUsers]_vars

\* One message was delivered while the registry held two identities, and both
\* are still registered.
C17_Witness ==
    \E m \in Messages :
        /\ req[m].push = "Delivered"
        /\ \A u \in Users : HasEntry(u)

OpenClientSockets == {s \in Sockets : clientSock[s] \in {"connecting", "connected"}}

\* C19: whatever checkAuth, signup, login and connectSocket calls were made,
\* the store's browser holds at most one socket that is connecting or
\* connected.
C19_AtMostOneSocket == Cardinality(OpenClientSockets) <= 1

\* C20: when a logout succeeds (the response arrives, authUser becomes null
\* and disconnectSocket has run), no socket the store opened is connecting or
\* connected any more.
C20_LogoutClosesSocket ==
    [][(/\ "logout" \in pending
        /\ "logout" \notin pending'
        /\ authUser # NoId
        /\ authUser' = NoId)
       => OpenClientSockets' = {}]_vars

\* C25: a request answered 400 or 404 has stored no message and pushed
\* nothing; a request still before or in its validation has stored and pushed
\* nothing; and only a request whose sender differs from its receiver and
\* whose receiver exists gets as far as the upload or the save.
C25_RejectedSendsNothing ==
    \A m \in Messages :
        /\ req[m].status \in {400, 404}
             => /\ req[m].pc = "done"
                /\ ~req[m].saved
                /\ req[m].push = "none"
                /\ \A s \in Sockets : newMessageCount[s][m] = 0
        /\ req[m].pc \in {"idle", "exists"}
             => /\ ~req[m].saved
                /\ req[m].status = 0
                /\ \A s \in Sockets : newMessageCount[s][m] = 0
        /\ req[m].pc \in {"upload", "save"}
             => /\ req[m].receiverId \in Users
                /\ req[m].senderId # req[m].receiverId

\* A request was refused with 404 while every user was registered and
\* writable.
C25_Witness ==
    \E m \in Messages :
        /\ req[m].status = 404
        /\ \A u \in Users : HasEntry(u) /\ transportOpen[EntryOf(u)]

\* C26: every socket id the registry holds is that of a connection whose
\* "connection" handler has run and whose "disconnect" has not fired, and it
\* is a connection of the entry's identity; a message is only ever pushed to
\* a connection in that state.
C26_NoDeadHandle ==
    /\ \A i \in DOMAIN userSocketMap :
          /\ sockState[userSocketMap[i].v] = "connected"
          /\ sockUserId[userSocketMap[i].v] = userSocketMap[i].k
    /\ \A s \in Sockets, m \in Messages :
          newMessageCount[s][m] > 0 => sockState[s] \in {"connected", "disconnected"}

\* An identity's first connection has disconnected, its second is registered
\* and a message was delivered.
C26_Witness ==
    \E h1, h2 \in Sockets, m \in Messages :
        /\ sockState[h1] = "disconnected"
        /\ Live(h2)
        /\ sockUserId[h1] = sockUserId[h2]
        /\ EntryOf(sockUserId[h2]) = h2
        /\ req[m].push = "Delivered"

\* C24: isUsersLoading is true exactly while a fetch of contacts or of chat
\* partners is awaiting its response.
C24_LoadingWhileFetching == isUsersLoading <=> (fetching # {})

\* Number of entries of the list equal to e.
Occurrences(list, e) == Cardinality({i \in DOMAIN list : list[i] = e})

\* Send k is answered in this step.
SendReturns(k) == sends[k].pc = "inflight" /\ sends'[k].pc # "inflight"

\* The list without the entries equal to e.
Without(list, e) == SelectSeq(list, LAMBDA x : x # e)

\* C21: once every send that was made has succeeded and none is in flight,
\* messages holds the server's record of each of them exactly once and no
\* optimistic entry.
C21_SendsSettle ==
    (\A k \in Sends : sends[k].pc \in {"idle", "succeeded"})
    => /\ \A k \in Sends :
             sends[k].pc = "succeeded" => Occurrences(messages, ServerMessage(k)) = 1
       /\ \A i \in DOMAIN messages : messages[i].kind # "optimistic"

\* C22: when a send fails, its optimistic message is in messages no more and
\* the list is the one the store held when the send was called, before the
\* optimistic entry was added; if nothing else touched the list while the
\* request was in flight, that is the present list without that entry.
C22_FailedSendRollsBack ==
    [][\A k \in Sends :
         (SendReturns(k) /\ sends'[k].pc = "failed")
         => /\ Occurrences(messages', OptimisticMessage(k)) = 0
            /\ messages' = sends[k].snapshot
            /\ messages = Append(sends[k].snapshot, OptimisticMessage(k))
                 => messages' = Without(messages, OptimisticMessage(k))]_vars

\* A send failed and the list holds an earlier message but no optimistic one.
C22_Witness ==
    \E k \in Sends :
        /\ sends[k].pc = "failed"
        /\ messages # <<>>
        /\ \A i \in DOMAIN messages : messages[i].kind # "optimistic"

\* C27: a message the newMessage listener appended while a send was in flight
\* is still in messages when that send is answered, with success or failure.
C27_IncomingSurvivesSend ==
    [][\A k \in Sends, i \in DOMAIN messages :
         (/\ SendReturns(k)
          /\ messages[i].kind = "incoming"
          /\ Occurrences(sends[k].snapshot, messages[i]) = 0)
         => Occurrences(messages', messages[i]) = 1]_vars

\* C23: whenever the newMessage listener appends a message to messages, a
\* chat is open and the message's sender is the user selected at that moment.
C23_OnlySelectedUserAppended ==
    [][(nextIncoming' # nextIncoming /\ messages' # messages)
       => /\ selectedUser # NoId
          /\ messages'[Len(messages')].senderId = selectedUser]_vars

====
